---- MODULE Spec2Model ----
(***************************************************************************)
(* Model of PythonStringEngine (lib/llm/src/engines/python.rs): the        *)
(* construction of the engine (new, run_asyncio, python_file_to_module),    *)
(* the generate operation, its forwarding task, the bounded response       *)
(* channel and the consumer of the returned stream; and of run             *)
(* (launch/dynemo-run/src/lib.rs): engine selection, the wait for remote   *)
(* endpoints, and the start of the input front end.                        *)
(***************************************************************************)
EXTENDS Integers, Naturals, Sequences, FiniteSets, TLC

\* ---------------------------------------------------------------- bounds
NumRequests == 2
MaxItems == 2
MaxExtra == 2

\* ------------------------------------------------------ program constants
ChannelCapacity == 128

Requests == 1..NumRequests

\* holders of the exclusivity lock other than the offload closure of a
\* request r (which holds it as r): the task running `new`, which takes the
\* lock inline, and the thread of run_asyncio
CtorTask == NumRequests + 1

LoopThread == NumRequests + 2

VARIABLES
    run_pc,        \* position of run (dynemo-run)
    out_opt,       \* argument out_opt of run: the engine asked for
    in_opt,        \* argument in_opt of run: the input front end asked for
    model_name,    \* local model_name of run: "some" or "none"
    maybe_card,    \* local maybe_card of run: "some" or "none"
    engine_config, \* local engine_config of run ("unset" before its `let`)
    cancel_token,  \* the runtime's primary token: TRUE once cancelled
    endpoints,     \* state of client.wait_for_endpoints()
    front_end,     \* input front end started by run ("none" = not started)
    fired_waiting, \* the token was cancelled while run waited for endpoints
    new_pc,      \* position of PythonStringEngine::new
    loop,        \* state of the run_asyncio thread and its event loop
    handoff,     \* state of the oneshot channel (tx in run_asyncio, rx in new)
    event_loop,  \* field event_loop of the engine: loop received (0 = none)
    hosts,       \* number of run_asyncio threads spawned
    script,      \* what the file given to new contains
    locals,      \* loop each request's TaskLocals are bound to (0 = none)
    ran_on,      \* thread that ran the last step of each request's guest sequence
    pc,          \* position of each request: generate call / forwarding task
    guest,       \* the guest asynchronous sequence each request's call yields
    count,       \* items pulled from the guest sequence (local `count`)
    response,    \* Annotated response computed for the current item
    done,        \* local flag `done` of the current loop iteration
    chan,        \* buffered contents of the mpsc channel (tx -> rx)
    rx,          \* state of the consumer's ReceiverStream
    received,    \* items the consumer has taken from the stream, in order
    stop_calls,  \* number of ctx.stop_generating() invocations
    gil,         \* holder of the exclusivity lock (0 = free)
    join_failed  \* a spawn_blocking JoinError was observed while converting

run_vars == <<run_pc, out_opt, in_opt, model_name, maybe_card, engine_config,
              cancel_token, endpoints, front_end, fired_waiting>>

ctor_vars == <<new_pc, loop, handoff, event_loop, hosts, script>>

engine_vars == <<new_pc, loop, handoff, event_loop, hosts, script, locals,
                 ran_on, pc, guest, count, response, done, chan, rx, received,
                 stop_calls, gil, join_failed>>

vars == <<run_vars, engine_vars>>

\* ------------------------------------------------------------ guest items
Kinds == {"ok", "raise", "bad"}

KindSeqs == UNION {[1..n -> Kinds] : n \in 0..MaxItems}

Payload(r, i) == r * 1000 + i

MkGuest(r, ks) == [i \in 1..Len(ks) |-> [kind |-> ks[i], val |-> Payload(r, i)]]

NoResponse == [tag |-> "none"]

\* ------------------------------------------------------- pure functions
from_data(d) == [tag |-> "data", data |-> d]

from_error(m) == [tag |-> "error", msg |-> m]

depythonize(obj) ==
    IF obj.kind = "ok"
    THEN [ok |-> TRUE, v |-> [resp |-> obj.val]]
    ELSE [ok |-> FALSE, e |-> <<"invalid type", obj.val>>]

process_item(item, join_ok) ==
    IF item.kind = "raise"
    THEN [ok |-> FALSE, variant |-> "PythonException", e |-> <<"PyErr", item.val>>]
    ELSE IF ~join_ok
    THEN [ok |-> FALSE, variant |-> "OffloadError", e |-> <<"JoinError">>]
    ELSE IF depythonize(item).ok
    THEN [ok |-> TRUE, v |-> from_data(depythonize(item).v)]
    ELSE [ok |-> FALSE, variant |-> "DeserializeError", e |-> depythonize(item).e]

error_msg(res) ==
    CASE res.variant = "DeserializeError" ->
            <<"critical error: invalid response object", res.e>>
      [] res.variant = "PythonException" ->
            <<"a python exception was caught", res.e>>
      [] res.variant = "OffloadError" ->
            <<"critical error: failed to offload", res.e>>

\* variant of calls_stop that cancels on every error variant
calls_stop_any_error(res) == ~res.ok

calls_stop_never(res) == FALSE

calls_stop(res) == (~res.ok) /\ res.variant = "DeserializeError"

sets_done_always(res) == TRUE

sets_done_fatal_only(res) == (~res.ok) /\ res.variant /= "PythonException"

sets_done_never(res) == FALSE

sets_done(res) == ~res.ok

match_result(res) ==
    [response |-> IF res.ok THEN res.v ELSE from_error(error_msg(res)),
     done     |-> sets_done(res),
     stop     |-> IF calls_stop(res) THEN 1 ELSE 0]

\* ------------------------------------------------------------ initial state
Scripts == {"ok", "missing_file", "no_generate"}

\* the arguments of run and what its first lines (80-114) compute from flags
Outputs == {"echo_full", "echo_core", "endpoint", "pystr"}

Inputs == {"http", "text", "endpoint", "none"}

Configs == [out : Outputs, inp : Inputs, name : {"some", "none"},
            card : {"some", "none"}]

\* the configurations used beside the request workloads: one serving front
\* end (text) and Input::None, with a model card
ServeConfigs == {c \in Configs : c.inp \in {"text", "none"} /\ c.card = "some"}

\* run is called: nothing selected, nothing started, token not cancelled
InitRun(cfgs) ==
    /\ run_pc = "start"
    /\ \E c \in cfgs :
          /\ out_opt = c.out
          /\ in_opt = c.inp
          /\ model_name = c.name
          /\ maybe_card = c.card
    /\ engine_config = "unset"
    /\ cancel_token = FALSE
    /\ endpoints = "pending"
    /\ front_end = "none"
    /\ fired_waiting = FALSE

\* before new is called: no thread, no loop, no engine
InitCtor ==
    /\ new_pc = "start"
    /\ loop = "none"
    /\ handoff = "empty"
    /\ event_loop = 0
    /\ hosts = 0
    /\ script \in Scripts
    /\ locals = [r \in Requests |-> 0]
    /\ ran_on = [r \in Requests |-> 0]

InitCommon ==
    /\ InitRun(ServeConfigs)
    /\ InitCtor
    /\ pc = [r \in Requests |-> "idle"]
    /\ count = [r \in Requests |-> 0]
    /\ response = [r \in Requests |-> NoResponse]
    /\ done = [r \in Requests |-> FALSE]
    /\ chan = [r \in Requests |-> <<>>]
    /\ rx = [r \in Requests |-> "none"]
    /\ received = [r \in Requests |-> <<>>]
    /\ stop_calls = [r \in Requests |-> 0]
    /\ gil = 0
    /\ join_failed = [r \in Requests |-> FALSE]

\* Request 1 carries every guest sequence up to MaxItems items; the other
\* requests are concurrent one-item requests running beside it.
LoadSeqs == {<<"ok">>}

Workloads == {ks \in [Requests -> KindSeqs \cup LoadSeqs] :
                 /\ ks[1] \in KindSeqs
                 /\ \A r \in Requests \ {1} : ks[r] \in LoadSeqs}

Init ==
    /\ InitCommon
    /\ \E ks \in Workloads :
          guest = [r \in Requests |-> MkGuest(r, ks[r])]

\* A single request whose guest sequence is longer than the channel: only its
\* last item may fail; the other request slots are never called.
LongSeqs == {[i \in 1..n |-> IF i = n THEN k ELSE "ok"] :
                n \in (ChannelCapacity + 1)..(ChannelCapacity + MaxExtra),
                k \in Kinds}

InitLong ==
    /\ InitRun(ServeConfigs)
    /\ InitCtor
    /\ pc = [r \in Requests |-> IF r = 1 THEN "idle" ELSE "unused"]
    /\ count = [r \in Requests |-> 0]
    /\ response = [r \in Requests |-> NoResponse]
    /\ done = [r \in Requests |-> FALSE]
    /\ chan = [r \in Requests |-> <<>>]
    /\ rx = [r \in Requests |-> "none"]
    /\ received = [r \in Requests |-> <<>>]
    /\ stop_calls = [r \in Requests |-> 0]
    /\ gil = 0
    /\ join_failed = [r \in Requests |-> FALSE]
    /\ \E ks \in LongSeqs :
          guest = [r \in Requests |-> IF r = 1 THEN MkGuest(r, ks) ELSE <<>>]

\* variant of loop_runner in which the loop is driven from the task that ran new
loop_runner_inline(l) == IF l /= 0 /\ l = hosts /\ loop = "running" THEN CtorTask ELSE 0

\* ------------------------------------------------- construction (new)
\* the loop created by the run_asyncio thread is run by that same thread
loop_runner(l) == IF l /= 0 /\ l = hosts /\ loop = "running" THEN LoopThread ELSE 0

\* variant of task_locals that names a loop of its own, not the stored one
task_locals_fresh == hosts + 1

\* TaskLocals::new(event_loop): the loop a request's guest sequence is bound to
task_locals == event_loop

\* new: create the oneshot channel and spawn run_asyncio on the blocking pool
NewStart ==
    /\ run_pc = "make_engine"
    /\ new_pc = "start"
    /\ new_pc' = "await_loop"
    /\ loop' = "spawned"
    /\ hosts' = hosts + 1
    /\ UNCHANGED <<handoff, event_loop, script, locals, ran_on, pc, guest,
                   count, response, done, chan, rx, received, stop_calls, gil,
                   join_failed>>
    /\ UNCHANGED run_vars

\* run_asyncio: create the loop under the lock and send it through tx; a
\* failed unwrap ends the thread, which drops tx
LoopCreate ==
    /\ loop = "spawned"
    /\ gil = 0
    /\ \E created \in BOOLEAN :
          IF created
          THEN loop' = "created" /\ handoff' = "sent"
          ELSE loop' = "failed" /\ handoff' = "closed"
    /\ UNCHANGED <<new_pc, event_loop, hosts, script, locals, ran_on, pc,
                   guest, count, response, done, chan, rx, received,
                   stop_calls, gil, join_failed>>
    /\ UNCHANGED run_vars

\* run_asyncio: run_forever on the thread that created the loop
LoopRunForever ==
    /\ loop = "created"
    /\ loop' = "running"
    /\ UNCHANGED <<new_pc, handoff, event_loop, hosts, script, locals, ran_on,
                   pc, guest, count, response, done, chan, rx, received,
                   stop_calls, gil, join_failed>>
    /\ UNCHANGED run_vars

\* variant of NewAwaitLoop that only ever resolves with a value
NewAwaitLoop_value_only ==
    /\ new_pc = "await_loop"
    /\ handoff = "sent"
    /\ new_pc' = "load" /\ event_loop' = hosts /\ handoff' = "taken"
    /\ UNCHANGED <<loop, hosts, script, locals, ran_on, pc, guest, count,
                   response, done, chan, rx, received, stop_calls, gil,
                   join_failed>>
    /\ UNCHANGED run_vars

\* new: rx.await? resolves with the loop, or with RecvError when tx was dropped
NewAwaitLoop ==
    /\ new_pc = "await_loop"
    /\ handoff \in {"sent", "closed"}
    /\ IF handoff = "sent"
       THEN new_pc' = "load" /\ event_loop' = hosts /\ handoff' = "taken"
       ELSE new_pc' = "error" /\ event_loop' = event_loop /\ handoff' = handoff
    /\ UNCHANGED <<loop, hosts, script, locals, ran_on, pc, guest, count,
                   response, done, chan, rx, received, stop_calls, gil,
                   join_failed>>
    /\ UNCHANGED run_vars

\* new: python_file_to_module and the getattr take the lock inline
NewAcquire ==
    /\ new_pc \in {"load", "lookup"}
    /\ gil = 0
    /\ gil' = CtorTask
    /\ new_pc' = IF new_pc = "load" THEN "loading" ELSE "looking"
    /\ UNCHANGED <<loop, handoff, event_loop, hosts, script, locals, ran_on,
                   pc, guest, count, response, done, chan, rx, received,
                   stop_calls, join_failed>>
    /\ UNCHANGED run_vars

\* outcome of python_file_to_module: py.run(PY_IMPORT).unwrap()
load_outcome(sc) == IF sc = "missing_file" THEN "panicked" ELSE "lookup"

\* outcome of user_module.getattr("generate").unwrap(), then Ok(engine)
lookup_outcome(sc) == IF sc = "no_generate" THEN "panicked" ELSE "ready"

\* python_file_to_module returns or panics; the lock is released either way
NewLoadModule ==
    /\ new_pc = "loading"
    /\ gil = CtorTask
    /\ gil' = 0
    /\ new_pc' = load_outcome(script)
    /\ UNCHANGED <<loop, handoff, event_loop, hosts, script, locals, ran_on,
                   pc, guest, count, response, done, chan, rx, received,
                   stop_calls, join_failed>>
    /\ UNCHANGED run_vars

\* the getattr returns or panics; on success new returns the engine
NewLookup ==
    /\ new_pc = "looking"
    /\ gil = CtorTask
    /\ gil' = 0
    /\ new_pc' = lookup_outcome(script)
    /\ UNCHANGED <<loop, handoff, event_loop, hosts, script, locals, ran_on,
                   pc, guest, count, response, done, chan, rx, received,
                   stop_calls, join_failed>>
    /\ UNCHANGED run_vars

\* ------------------------------------------------------------------ steps
\* generate: transfer the request, create the channel, offload the call
Generate(r) ==
    /\ run_pc = "input"
    /\ engine_config = "StaticFull"
    /\ new_pc = "ready"
    /\ pc[r] = "idle"
    /\ pc' = [pc EXCEPT ![r] = "setup_wait"]
    /\ UNCHANGED <<guest, count, response, done, chan, rx, received,
                   stop_calls, gil, join_failed>>
    /\ UNCHANGED <<ctor_vars, locals, ran_on>>
    /\ UNCHANGED run_vars

\* the offloaded closure takes the exclusivity lock
SetupAcquire(r) ==
    /\ pc[r] = "setup_wait"
    /\ gil = 0
    /\ gil' = r
    /\ pc' = [pc EXCEPT ![r] = "setup"]
    /\ UNCHANGED <<guest, count, response, done, chan, rx, received,
                   stop_calls, join_failed>>
    /\ UNCHANGED <<ctor_vars, locals, ran_on>>
    /\ UNCHANGED run_vars

\* variant of SetupReturn that calls stop_generating when the setup fails
SetupReturn_cancel_on_error(r) ==
    /\ pc[r] = "setup"
    /\ gil = r
    /\ gil' = 0
    /\ \E ok \in BOOLEAN :
          IF ok
          THEN /\ pc' = [pc EXCEPT ![r] = "pull"]
               /\ rx' = [rx EXCEPT ![r] = "open"]
               /\ locals' = [locals EXCEPT ![r] = task_locals]
               /\ stop_calls' = stop_calls
          ELSE /\ pc' = [pc EXCEPT ![r] = "rejected"]
               /\ rx' = rx
               /\ locals' = locals
               /\ stop_calls' = [stop_calls EXCEPT ![r] = @ + 1]
    /\ UNCHANGED <<guest, count, response, done, chan, received, join_failed>>
    /\ UNCHANGED <<ctor_vars, ran_on>>
    /\ UNCHANGED run_vars

\* the closure returns; on success the forwarding task is spawned and the
\* ReceiverStream is returned, otherwise generate returns the error
SetupReturn(r) ==
    /\ pc[r] = "setup"
    /\ gil = r
    /\ gil' = 0
    /\ \E ok \in BOOLEAN :
          IF ok
          THEN /\ pc' = [pc EXCEPT ![r] = "pull"]
               /\ rx' = [rx EXCEPT ![r] = "open"]
               /\ locals' = [locals EXCEPT ![r] = task_locals]
          ELSE /\ pc' = [pc EXCEPT ![r] = "rejected"]
               /\ rx' = rx
               /\ locals' = locals
    /\ UNCHANGED <<guest, count, response, done, chan, received,
                   stop_calls, join_failed>>
    /\ UNCHANGED <<ctor_vars, ran_on>>
    /\ UNCHANGED run_vars

\* variant of StreamNext in which an exhausted sequence never yields None
StreamNext_no_end(r) ==
    /\ pc[r] = "pull"
    /\ gil = 0
    /\ loop_runner(locals[r]) /= 0
    /\ ran_on' = [ran_on EXCEPT ![r] = loop_runner(locals[r])]
    /\ count[r] < Len(guest[r])
    /\ LET item == guest[r][count[r] + 1] IN
       /\ count' = [count EXCEPT ![r] = @ + 1]
       /\ IF item.kind = "raise"
          THEN LET m == match_result(process_item(item, TRUE)) IN
               /\ response' = [response EXCEPT ![r] = m.response]
               /\ done' = [done EXCEPT ![r] = m.done]
               /\ stop_calls' = [stop_calls EXCEPT ![r] = @ + m.stop]
               /\ pc' = [pc EXCEPT ![r] = "send"]
          ELSE /\ pc' = [pc EXCEPT ![r] = "convert_wait"]
               /\ done' = [done EXCEPT ![r] = FALSE]
               /\ UNCHANGED <<response, stop_calls>>
    /\ UNCHANGED <<guest, chan, rx, received, gil, join_failed>>
    /\ UNCHANGED <<ctor_vars, locals>>
    /\ UNCHANGED run_vars

\* stream.next().await: one step of the guest sequence on the event loop
StreamNext(r) ==
    /\ pc[r] = "pull"
    /\ gil = 0
    /\ loop_runner(locals[r]) /= 0
    /\ ran_on' = [ran_on EXCEPT ![r] = loop_runner(locals[r])]
    /\ IF count[r] < Len(guest[r])
       THEN LET item == guest[r][count[r] + 1] IN
            /\ count' = [count EXCEPT ![r] = @ + 1]
            /\ IF item.kind = "raise"
               THEN LET m == match_result(process_item(item, TRUE)) IN
                    /\ response' = [response EXCEPT ![r] = m.response]
                    /\ done' = [done EXCEPT ![r] = m.done]
                    /\ stop_calls' = [stop_calls EXCEPT ![r] = @ + m.stop]
                    /\ pc' = [pc EXCEPT ![r] = "send"]
               ELSE /\ pc' = [pc EXCEPT ![r] = "convert_wait"]
                    /\ done' = [done EXCEPT ![r] = FALSE]
                    /\ UNCHANGED <<response, stop_calls>>
       ELSE /\ pc' = [pc EXCEPT ![r] = "done"]
            /\ UNCHANGED <<count, response, done, stop_calls>>
    /\ UNCHANGED <<guest, chan, rx, received, gil, join_failed>>
    /\ UNCHANGED <<ctor_vars, locals>>
    /\ UNCHANGED run_vars

\* variant of ConvertAcquire that enters the guest without waiting for the lock
ConvertAcquire_no_lock(r) ==
    /\ pc[r] = "convert_wait"
    /\ gil' = r
    /\ pc' = [pc EXCEPT ![r] = "convert"]
    /\ UNCHANGED <<guest, count, response, done, chan, rx, received,
                   stop_calls, join_failed>>
    /\ UNCHANGED <<ctor_vars, locals, ran_on>>
    /\ UNCHANGED run_vars

\* process_item: the offloaded depythonize closure takes the lock
ConvertAcquire(r) ==
    /\ pc[r] = "convert_wait"
    /\ gil = 0
    /\ gil' = r
    /\ pc' = [pc EXCEPT ![r] = "convert"]
    /\ UNCHANGED <<guest, count, response, done, chan, rx, received,
                   stop_calls, join_failed>>
    /\ UNCHANGED <<ctor_vars, locals, ran_on>>
    /\ UNCHANGED run_vars

Classified(r, join_ok) ==
    LET m == match_result(process_item(guest[r][count[r]], join_ok)) IN
    /\ response' = [response EXCEPT ![r] = m.response]
    /\ done' = [done EXCEPT ![r] = m.done]
    /\ stop_calls' = [stop_calls EXCEPT ![r] = @ + m.stop]
    /\ pc' = [pc EXCEPT ![r] = "send"]

\* the closure returns its conversion result and releases the lock
ConvertReturn(r) ==
    /\ pc[r] = "convert"
    /\ gil = r
    /\ gil' = 0
    /\ Classified(r, TRUE)
    /\ UNCHANGED <<guest, count, chan, rx, received, join_failed>>
    /\ UNCHANGED <<ctor_vars, locals, ran_on>>
    /\ UNCHANGED run_vars

\* the JoinHandle of the offloaded closure resolves to a JoinError
ConvertJoinError(r) ==
    /\ pc[r] \in {"convert_wait", "convert"}
    /\ gil' = IF gil = r THEN 0 ELSE gil
    /\ Classified(r, FALSE)
    /\ join_failed' = [join_failed EXCEPT ![r] = TRUE]
    /\ UNCHANGED <<guest, count, chan, rx, received>>
    /\ UNCHANGED <<ctor_vars, locals, ran_on>>
    /\ UNCHANGED run_vars

\* variant of Send that does not wait for room: a full channel loses the item
Send_try(r) ==
    /\ pc[r] = "send"
    /\ IF rx[r] = "dropped"
       THEN /\ pc' = [pc EXCEPT ![r] = "done"]
            /\ chan' = chan
       ELSE /\ chan' = [chan EXCEPT ![r] =
                           IF Len(@) < ChannelCapacity
                           THEN Append(@, response[r]) ELSE @]
            /\ pc' = [pc EXCEPT ![r] = IF done[r] THEN "done" ELSE "pull"]
    /\ response' = [response EXCEPT ![r] = NoResponse]
    /\ UNCHANGED <<guest, count, done, rx, received, stop_calls, gil,
                   join_failed>>
    /\ UNCHANGED <<ctor_vars, locals, ran_on>>
    /\ UNCHANGED run_vars

\* faulty variants of Send: ignoring the send error, an unbounded channel,
\* one channel for all requests, a channel that delivers newest first
Send_ignore_closed(r) ==
    /\ pc[r] = "send"
    /\ IF rx[r] = "dropped"
       THEN /\ pc' = [pc EXCEPT ![r] = IF done[r] THEN "done" ELSE "pull"]
            /\ chan' = chan
       ELSE /\ Len(chan[r]) < ChannelCapacity
            /\ chan' = [chan EXCEPT ![r] = Append(@, response[r])]
            /\ pc' = [pc EXCEPT ![r] = IF done[r] THEN "done" ELSE "pull"]
    /\ response' = [response EXCEPT ![r] = NoResponse]
    /\ UNCHANGED <<guest, count, done, rx, received, stop_calls, gil,
                   join_failed>>
    /\ UNCHANGED <<ctor_vars, locals, ran_on>>
    /\ UNCHANGED run_vars

Send_unbounded(r) ==
    /\ pc[r] = "send"
    /\ IF rx[r] = "dropped"
       THEN /\ pc' = [pc EXCEPT ![r] = "done"]
            /\ chan' = chan
       ELSE /\ chan' = [chan EXCEPT ![r] = Append(@, response[r])]
            /\ pc' = [pc EXCEPT ![r] = IF done[r] THEN "done" ELSE "pull"]
    /\ response' = [response EXCEPT ![r] = NoResponse]
    /\ UNCHANGED <<guest, count, done, rx, received, stop_calls, gil,
                   join_failed>>
    /\ UNCHANGED <<ctor_vars, locals, ran_on>>
    /\ UNCHANGED run_vars

Send_shared(r) ==
    /\ pc[r] = "send"
    /\ IF rx[r] = "dropped"
       THEN /\ pc' = [pc EXCEPT ![r] = "done"]
            /\ chan' = chan
       ELSE /\ Len(chan[1]) < ChannelCapacity
            /\ chan' = [chan EXCEPT ![1] = Append(@, response[r])]
            /\ pc' = [pc EXCEPT ![r] = IF done[r] THEN "done" ELSE "pull"]
    /\ response' = [response EXCEPT ![r] = NoResponse]
    /\ UNCHANGED <<guest, count, done, rx, received, stop_calls, gil,
                   join_failed>>
    /\ UNCHANGED <<ctor_vars, locals, ran_on>>
    /\ UNCHANGED run_vars

Send_front(r) ==
    /\ pc[r] = "send"
    /\ IF rx[r] = "dropped"
       THEN /\ pc' = [pc EXCEPT ![r] = "done"]
            /\ chan' = chan
       ELSE /\ Len(chan[r]) < ChannelCapacity
            /\ chan' = [chan EXCEPT ![r] = <<response[r]>> \o @]
            /\ pc' = [pc EXCEPT ![r] = IF done[r] THEN "done" ELSE "pull"]
    /\ response' = [response EXCEPT ![r] = NoResponse]
    /\ UNCHANGED <<guest, count, done, rx, received, stop_calls, gil,
                   join_failed>>
    /\ UNCHANGED <<ctor_vars, locals, ran_on>>
    /\ UNCHANGED run_vars

\* tx.send(response).await, then the `if done` test
Send(r) ==
    /\ pc[r] = "send"
    /\ IF rx[r] = "dropped"
       THEN /\ pc' = [pc EXCEPT ![r] = "done"]
            /\ chan' = chan
       ELSE /\ Len(chan[r]) < ChannelCapacity
            /\ chan' = [chan EXCEPT ![r] = Append(@, response[r])]
            /\ pc' = [pc EXCEPT ![r] = IF done[r] THEN "done" ELSE "pull"]
    /\ response' = [response EXCEPT ![r] = NoResponse]
    /\ UNCHANGED <<guest, count, done, rx, received, stop_calls, gil,
                   join_failed>>
    /\ UNCHANGED <<ctor_vars, locals, ran_on>>
    /\ UNCHANGED run_vars

\* the consumer polls the ReceiverStream and gets an item
Receive(r) ==
    /\ rx[r] = "open"
    /\ chan[r] /= <<>>
    /\ received' = [received EXCEPT ![r] = Append(@, Head(chan[r]))]
    /\ chan' = [chan EXCEPT ![r] = Tail(@)]
    /\ UNCHANGED <<pc, guest, count, response, done, rx, stop_calls, gil,
                   join_failed>>
    /\ UNCHANGED <<ctor_vars, locals, ran_on>>
    /\ UNCHANGED run_vars

\* the consumer polls an empty channel whose sender is gone: end of stream
ReceiveEnd(r) ==
    /\ rx[r] = "open"
    /\ chan[r] = <<>>
    /\ pc[r] = "done"
    /\ rx' = [rx EXCEPT ![r] = "eos"]
    /\ UNCHANGED <<pc, guest, count, response, done, chan, received,
                   stop_calls, gil, join_failed>>
    /\ UNCHANGED <<ctor_vars, locals, ran_on>>
    /\ UNCHANGED run_vars

\* the consumer drops the stream: the channel closes, buffered items are lost
ConsumerDrop(r) ==
    /\ rx[r] = "open"
    /\ rx' = [rx EXCEPT ![r] = "dropped"]
    /\ chan' = [chan EXCEPT ![r] = <<>>]
    /\ UNCHANGED <<pc, guest, count, response, done, received, stop_calls,
                   gil, join_failed>>
    /\ UNCHANGED <<ctor_vars, locals, ran_on>>
    /\ UNCHANGED run_vars

\* ------------------------------------------------------------------- run
\* the arms of `match out_opt` up to their first await: the engine
\* configuration they yield at once, or where run goes next
select_outcome(out, name, card, connect_ok) ==
    CASE out = "echo_full" ->
            IF name = "some" THEN [pc |-> "match_input", cfg |-> "StaticFull"]
            ELSE [pc |-> "returned_err", cfg |-> "unset"]
      [] out = "echo_core" ->
            IF card = "some" THEN [pc |-> "match_input", cfg |-> "StaticCore"]
            ELSE [pc |-> "returned_err", cfg |-> "unset"]
      [] out = "endpoint" ->
            IF connect_ok THEN [pc |-> "wait_endpoints", cfg |-> "unset"]
            ELSE [pc |-> "returned_err", cfg |-> "unset"]
      [] out = "pystr" ->
            IF name = "some" THEN [pc |-> "make_engine", cfg |-> "unset"]
            ELSE [pc |-> "returned_err", cfg |-> "unset"]

\* run enters `match out_opt`; connect_ok is whether path.parse(),
\* from_settings and client() all succeed
RunSelect ==
    /\ run_pc = "start"
    /\ \E connect_ok \in BOOLEAN :
          LET o == select_outcome(out_opt, model_name, maybe_card, connect_ok) IN
          /\ run_pc' = o.pc
          /\ engine_config' = o.cfg
    /\ UNCHANGED <<out_opt, in_opt, model_name, maybe_card, cancel_token,
                   endpoints, front_end, fired_waiting>>
    /\ UNCHANGED engine_vars

\* variant of make_engine_outcome that goes on without an engine when new fails
make_engine_outcome_lenient(ctor) ==
    CASE ctor = "ready" -> [pc |-> "match_input", cfg |-> "StaticFull"]
      [] ctor = "error" -> [pc |-> "match_input", cfg |-> "unset"]
      [] ctor = "panicked" -> [pc |-> "panicked", cfg |-> "unset"]

\* what `python::make_string_engine(&p).await?` makes of the end of new
make_engine_outcome(ctor) ==
    CASE ctor = "ready" -> [pc |-> "match_input", cfg |-> "StaticFull"]
      [] ctor = "error" -> [pc |-> "returned_err", cfg |-> "unset"]
      [] ctor = "panicked" -> [pc |-> "panicked", cfg |-> "unset"]

\* Output::PythonStr: new has ended, run takes its result
MakeEngineReturn ==
    /\ run_pc = "make_engine"
    /\ new_pc \in {"ready", "error", "panicked"}
    /\ LET o == make_engine_outcome(new_pc) IN
       /\ run_pc' = o.pc
       /\ engine_config' = o.cfg
    /\ UNCHANGED <<out_opt, in_opt, model_name, maybe_card, cancel_token,
                   endpoints, front_end, fired_waiting>>
    /\ UNCHANGED engine_vars

\* the runtime cancels its primary token; run reads the token only in the
\* endpoint wait and under Input::None, so it is modelled for those runs
Cancel ==
    /\ ~cancel_token
    /\ out_opt = "endpoint" \/ in_opt = "none"
    /\ run_pc \notin {"returned_ok", "returned_err", "panicked"}
    /\ cancel_token' = TRUE
    /\ fired_waiting' = (run_pc = "wait_endpoints" /\ endpoints = "pending")
    /\ UNCHANGED <<run_pc, out_opt, in_opt, model_name, maybe_card,
                   engine_config, endpoints, front_end>>
    /\ UNCHANGED engine_vars

\* client.wait_for_endpoints() becomes ready, with Ok or with an error
EndpointsAppear ==
    /\ run_pc = "wait_endpoints"
    /\ endpoints = "pending"
    /\ \E e \in {"ready", "failed"} : endpoints' = e
    /\ UNCHANGED <<run_pc, out_opt, in_opt, model_name, maybe_card,
                   engine_config, cancel_token, front_end, fired_waiting>>
    /\ UNCHANGED engine_vars

\* variant of WaitSelect whose cancellation branch returns an error
WaitSelect_cancel_is_error ==
    /\ run_pc = "wait_endpoints"
    /\ \/ /\ cancel_token
          /\ engine_config' = engine_config
          /\ run_pc' = "returned_err"
       \/ /\ endpoints = "ready"
          /\ engine_config' = "Dynamic"
          /\ run_pc' = "match_input"
       \/ /\ endpoints = "failed"
          /\ engine_config' = engine_config
          /\ run_pc' = "returned_err"
    /\ UNCHANGED <<out_opt, in_opt, model_name, maybe_card, cancel_token,
                   endpoints, front_end, fired_waiting>>
    /\ UNCHANGED engine_vars

\* tokio::select! is polled with a branch ready: it takes one ready branch,
\* whichever it polls first when both are ready
WaitSelect ==
    /\ run_pc = "wait_endpoints"
    /\ \/ /\ cancel_token
          /\ engine_config' = engine_config
          /\ run_pc' = "returned_ok"
       \/ /\ endpoints = "ready"
          /\ engine_config' = "Dynamic"
          /\ run_pc' = "match_input"
       \/ /\ endpoints = "failed"
          /\ engine_config' = engine_config
          /\ run_pc' = "returned_err"
    /\ UNCHANGED <<out_opt, in_opt, model_name, maybe_card, cancel_token,
                   endpoints, front_end, fired_waiting>>
    /\ UNCHANGED engine_vars

\* `match in_opt`: start the front end, or wait for the token under None
StartInput ==
    /\ run_pc = "match_input"
    /\ IF in_opt = "none"
       THEN /\ run_pc' = "wait_cancel"
            /\ front_end' = front_end
       ELSE /\ run_pc' = "input"
            /\ front_end' = in_opt
    /\ UNCHANGED <<out_opt, in_opt, model_name, maybe_card, engine_config,
                   cancel_token, endpoints, fired_waiting>>
    /\ UNCHANGED engine_vars

\* the front end returns, once it serves no request, and run returns with it
InputReturn ==
    /\ run_pc = "input"
    /\ \A r \in Requests :
          /\ pc[r] \in {"unused", "idle", "rejected", "done"}
          /\ rx[r] /= "open"
    /\ \E ok \in BOOLEAN :
          run_pc' = IF ok THEN "returned_ok" ELSE "returned_err"
    /\ UNCHANGED <<out_opt, in_opt, model_name, maybe_card, engine_config,
                   cancel_token, endpoints, front_end, fired_waiting>>
    /\ UNCHANGED engine_vars

\* Input::None: cancel_token.cancelled().await completes and run returns Ok
WaitCancel ==
    /\ run_pc = "wait_cancel"
    /\ cancel_token
    /\ run_pc' = "returned_ok"
    /\ UNCHANGED <<out_opt, in_opt, model_name, maybe_card, engine_config,
                   cancel_token, endpoints, front_end, fired_waiting>>
    /\ UNCHANGED engine_vars

Next ==
    \/ RunSelect
    \/ MakeEngineReturn
    \/ Cancel
    \/ EndpointsAppear
    \/ WaitSelect
    \/ StartInput
    \/ InputReturn
    \/ WaitCancel
    \/ NewStart
    \/ LoopCreate
    \/ LoopRunForever
    \/ NewAwaitLoop
    \/ NewAcquire
    \/ NewLoadModule
    \/ NewLookup
    \/ \E r \in Requests :
          \/ Generate(r)
          \/ SetupAcquire(r)
          \/ SetupReturn(r)
          \/ StreamNext(r)
          \/ ConvertAcquire(r)
          \/ ConvertReturn(r)
          \/ ConvertJoinError(r)
          \/ Send(r)
          \/ Receive(r)
          \/ ReceiveEnd(r)
          \/ ConsumerDrop(r)

Spec == Init /\ [][Next]_vars

SpecLong == InitLong /\ [][Next]_vars

\* run with every configuration, and one one-item request for the engine
InitLaunch ==
    /\ InitRun(Configs)
    /\ InitCtor
    /\ pc = [r \in Requests |-> IF r = 1 THEN "idle" ELSE "unused"]
    /\ count = [r \in Requests |-> 0]
    /\ response = [r \in Requests |-> NoResponse]
    /\ done = [r \in Requests |-> FALSE]
    /\ chan = [r \in Requests |-> <<>>]
    /\ rx = [r \in Requests |-> "none"]
    /\ received = [r \in Requests |-> <<>>]
    /\ stop_calls = [r \in Requests |-> 0]
    /\ gil = 0
    /\ join_failed = [r \in Requests |-> FALSE]
    /\ guest = [r \in Requests |-> IF r = 1 THEN MkGuest(r, <<"ok">>) ELSE <<>>]

SpecLaunch == InitLaunch /\ [][Next]_vars

\* Scheduling assumptions: the host scheduler runs every ready task, the
\* blocking pool runs every closure, the lock is eventually granted to each
\* waiter, the event loop advances every pending guest step, and a consumer
\* that has not dropped the stream keeps polling it.
TaskStep(r) ==
    \/ SetupAcquire(r)
    \/ SetupReturn(r)
    \/ StreamNext(r)
    \/ ConvertAcquire(r)
    \/ ConvertReturn(r)
    \/ Send(r)

ConsumerStep(r) == Receive(r) \/ ReceiveEnd(r)

CtorStep ==
    \/ NewStart
    \/ NewAwaitLoop
    \/ NewAcquire
    \/ NewLoadModule
    \/ NewLookup

LoopStep == LoopCreate \/ LoopRunForever

Fairness ==
    /\ WF_vars(CtorStep)
    /\ WF_vars(LoopStep)
    /\ \A r \in Requests : SF_vars(TaskStep(r)) /\ WF_vars(ConsumerStep(r))

\* For the termination property the concurrent load is requests whose guest sequence is empty.
InitLive ==
    /\ InitCommon
    /\ \E ks \in KindSeqs :
          guest = [r \in Requests |-> MkGuest(r, IF r = 1 THEN ks ELSE <<>>)]

SpecLive == InitLive /\ [][Next]_vars /\ Fairness

TypeOK ==
    /\ pc \in [Requests -> {"unused", "idle", "setup_wait", "setup", "rejected", "pull",
                            "convert_wait", "convert", "send", "done"}]
    /\ gil \in 0..(NumRequests + 2)
    /\ new_pc \in {"start", "await_loop", "load", "loading", "lookup",
                   "looking", "ready", "error", "panicked"}
    /\ loop \in {"none", "spawned", "created", "running", "failed"}
    /\ handoff \in {"empty", "sent", "closed", "taken"}
    /\ run_pc \in {"start", "make_engine", "wait_endpoints", "match_input",
                   "input", "wait_cancel", "returned_ok", "returned_err",
                   "panicked"}
    /\ out_opt \in Outputs
    /\ in_opt \in Inputs
    /\ engine_config \in {"unset", "StaticFull", "StaticCore", "Dynamic"}
    /\ cancel_token \in BOOLEAN
    /\ endpoints \in {"pending", "ready", "failed"}
    /\ front_end \in Inputs

\* ------------------------------------------------- expected stream items
ExpData(item) == [tag |-> "data", data |-> [resp |-> item.val]]

ExpPyErr(item) ==
    [tag |-> "error",
     msg |-> <<"a python exception was caught", <<"PyErr", item.val>>>>]

ExpBad(item) ==
    [tag |-> "error",
     msg |-> <<"critical error: invalid response object",
               <<"invalid type", item.val>>>>]

ExpOffload ==
    [tag |-> "error",
     msg |-> <<"critical error: failed to offload", <<"JoinError">>>>]

Stream(r) == received[r] \o chan[r]

OkBefore(r, k) == \A i \in 1..(k - 1) : guest[r][i].kind = "ok"

\* ------------------------------------------------------------------ C1
\* C1: a request whose guest sequence has N convertible items and completes
\* normally (no offload failure) only ever puts data items on its stream, the
\* i-th being the conversion of the i-th guest item, never calls
\* stop_generating, and when the consumer sees end-of-stream it has received
\* exactly the N items.
C1_AllSuccessful ==
    \A r \in Requests :
        ((\A i \in DOMAIN guest[r] : guest[r][i].kind = "ok") /\ ~join_failed[r])
        => /\ stop_calls[r] = 0
           /\ Len(Stream(r)) <= Len(guest[r])
           /\ \A j \in 1..Len(Stream(r)) : Stream(r)[j] = ExpData(guest[r][j])
           /\ rx[r] = "eos" => Len(received[r]) = Len(guest[r])

C1_Witness ==
    \E r \in Requests :
        /\ Len(guest[r]) >= 2
        /\ \A i \in DOMAIN guest[r] : guest[r][i].kind = "ok"
        /\ ~join_failed[r]
        /\ rx[r] = "eos"
        /\ Len(received[r]) = Len(guest[r])

C3_ConversionFailure ==
    \A r \in Requests : \A k \in DOMAIN guest[r] :
        (guest[r][k].kind = "bad" /\ OkBefore(r, k) /\ ~join_failed[r])
        => /\ count[r] <= k
           /\ Len(Stream(r)) <= k
           /\ \A j \in 1..Len(Stream(r)) :
                 Stream(r)[j] = IF j = k THEN ExpBad(guest[r][j])
                                ELSE ExpData(guest[r][j])
           /\ stop_calls[r] = IF count[r] = k /\ pc[r] \in {"send", "done"}
                              THEN 1 ELSE 0
           /\ rx[r] = "eos" => (Len(received[r]) = k /\ stop_calls[r] = 1)

C3_Witness ==
    \E r \in Requests : \E k \in DOMAIN guest[r] :
        /\ k < Len(guest[r])
        /\ guest[r][k].kind = "bad"
        /\ OkBefore(r, k)
        /\ rx[r] = "eos"
        /\ received[r][k] = ExpBad(guest[r][k])
        /\ stop_calls[r] = 1

\* ------------------------------------------------------------------ C4
\* C4: once the conversion offload of an item fails to join, the cancellation
\* signal has been raised and the offload error is the last item put on the
\* stream, after which the task sends nothing more.
C4_OffloadRaisesCancel ==
    \A r \in Requests :
        (join_failed[r] /\ pc[r] \in {"send", "done"})
        => /\ stop_calls[r] = 1
           /\ \A j \in 1..Len(Stream(r)) :
                 Stream(r)[j] = ExpOffload => j = Len(Stream(r))
           /\ pc[r] = "send" => response[r] = ExpOffload

\* ------------------------------------------------------------------ C5
\* C5: a fatal error item (conversion or offload failure) appears on a
\* request's stream only as its last item, hence at most once, and once it is
\* on the stream the forwarding task has finished and sends nothing after it.
C5_FatalIsLast ==
    \A r \in Requests : \A j \in 1..Len(Stream(r)) :
        Stream(r)[j] \in {ExpBad(guest[r][j]), ExpOffload}
        => (j = Len(Stream(r)) /\ pc[r] = "done")

C5_Witness ==
    \E r \in Requests :
        /\ rx[r] = "eos"
        /\ Len(received[r]) >= 1
        /\ received[r][Len(received[r])] \in
              {ExpBad(guest[r][Len(received[r])]), ExpOffload}
        /\ Len(guest[r]) > Len(received[r])

\* ------------------------------------------------------------------ C6
\* C6: once the consumer has dropped the stream, every step of the forwarding
\* task moves it strictly closer to its end (pull, convert, send, done: at
\* most four steps), nothing is delivered or buffered any more, and the send
\* that finds the channel closed ends the task without calling
\* stop_generating.
LoopRank(p) ==
    CASE p = "pull" -> 4
      [] p = "convert_wait" -> 3
      [] p = "convert" -> 2
      [] p = "send" -> 1
      [] OTHER -> 0

C6_DropStep ==
    \A r \in Requests :
        rx[r] = "dropped"
        => /\ received'[r] = received[r]
           /\ chan'[r] = <<>>
           /\ rx'[r] = "dropped"
           /\ pc'[r] /= pc[r] => LoopRank(pc'[r]) < LoopRank(pc[r])
           /\ (pc[r] = "send" /\ pc'[r] /= pc[r])
              => (pc'[r] = "done" /\ stop_calls'[r] = stop_calls[r])

\* C6: every step taken after the consumer dropped the stream is such a step.
C6_ConsumerDrop == [][C6_DropStep]_vars

C6_Witness ==
    \E r \in Requests :
        /\ rx[r] = "dropped"
        /\ pc[r] = "done"
        /\ ~done[r]
        /\ count[r] < Len(guest[r])

\* ------------------------------------------------------------------ C7
\* C7: the channel never holds more than 128 items; while the consumer is
\* alive the items received plus the items buffered are exactly the items
\* whose send has completed, each carrying the payload of the guest item at
\* its position; and a producer at send on a channel holding 128 items stays
\* at send with its item until the consumer takes one or goes away.
Carries(x, item) ==
    x \in {ExpData(item), ExpPyErr(item), ExpBad(item), ExpOffload}

InFlight(r) == IF pc[r] \in {"convert_wait", "convert", "send"} THEN 1 ELSE 0

C7_ChannelState ==
    \A r \in Requests :
        /\ Len(chan[r]) <= 128
        /\ rx[r] \in {"open", "eos"}
           => /\ Len(Stream(r)) = count[r] - InFlight(r)
              /\ \A j \in 1..Len(Stream(r)) : Carries(Stream(r)[j], guest[r][j])

C7_FullStep ==
    \A r \in Requests :
        (Len(chan[r]) = 128 /\ pc[r] = "send" /\ rx[r] = "open")
        => /\ pc'[r] = "send"
           /\ response'[r] = response[r]
           /\ count'[r] = count[r]

\* C7: the channel state is always as above and a full channel holds the
\* producer at send.
C7_Backpressure == [](C7_ChannelState) /\ [][C7_FullStep]_vars

C7_Witness ==
    \E r \in Requests :
        /\ Len(chan[r]) = 128
        /\ pc[r] = "send"
        /\ rx[r] = "open"
        /\ Len(received[r]) >= 1

\* ------------------------------------------------------------------ C8
\* C8: whatever the interleaving of concurrent requests, the stream of each
\* request holds only responses to its own guest items (whose payloads name
\* the request), one per completed send and in guest order, an offload error
\* only if its own offload failed, and at end-of-stream it has stopped where
\* its own guest sequence makes it stop: at its first item that is not
\* convertible, or at its end.
FirstStop(r) ==
    IF \E i \in DOMAIN guest[r] : guest[r][i].kind /= "ok"
    THEN CHOOSE i \in DOMAIN guest[r] :
            /\ guest[r][i].kind /= "ok"
            /\ \A h \in 1..(i - 1) : guest[r][h].kind = "ok"
    ELSE Len(guest[r])

OwnResponse(r, j, x) ==
    \/ x = ExpData([val |-> Payload(r, j)]) /\ guest[r][j].kind = "ok"
    \/ x = ExpPyErr([val |-> Payload(r, j)]) /\ guest[r][j].kind = "raise"
    \/ x = ExpBad([val |-> Payload(r, j)]) /\ guest[r][j].kind = "bad"
    \/ x = ExpOffload /\ join_failed[r]

\* C8: every request's stream holds its own responses only, in order, and
\* ends where its own guest sequence makes it end.
C8_Isolation ==
    \A r \in Requests :
        /\ Len(Stream(r)) <= Len(guest[r])
        /\ \A j \in 1..Len(Stream(r)) : OwnResponse(r, j, Stream(r)[j])
        /\ rx[r] = "open" => Len(Stream(r)) = count[r] - InFlight(r)
        /\ rx[r] = "eos"
           => IF join_failed[r]
              THEN /\ Len(received[r]) <= FirstStop(r)
                   /\ received[r][Len(received[r])] = ExpOffload
              ELSE Len(received[r]) = FirstStop(r)

C8_Witness ==
    \E r1 \in Requests : \E r2 \in Requests \ {r1} :
        /\ rx[r1] = "open" /\ rx[r2] = "open"
        /\ pc[r1] \in {"pull", "convert_wait", "convert", "send"}
        /\ pc[r2] \in {"pull", "convert_wait", "convert", "send"}
        /\ Len(received[r1]) >= 1
        /\ Len(chan[r2]) >= 1

\* ------------------------------------------------------------------ C9
\* C9: at every point the items delivered to the consumer are, position by
\* position, the responses to a prefix of the guest sequence: the j-th
\* delivered item is the data, exception or conversion-error response to the
\* j-th guest item, or the offload error raised while converting it.
C9_PrefixOrder ==
    \A r \in Requests :
        /\ Len(received[r]) <= count[r]
        /\ \A j \in 1..Len(received[r]) :
              \/ received[r][j] = ExpData(guest[r][j]) /\ guest[r][j].kind = "ok"
              \/ received[r][j] = ExpPyErr(guest[r][j]) /\ guest[r][j].kind = "raise"
              \/ received[r][j] = ExpBad(guest[r][j]) /\ guest[r][j].kind = "bad"
              \/ received[r][j] = ExpOffload /\ guest[r][j].kind /= "raise"

C9_Witness ==
    \E r \in Requests :
        /\ Len(received[r]) >= 2
        /\ received[r][1].tag = "data"
        /\ received[r][2].tag = "error"
        /\ rx[r] = "open"

\* ------------------------------------------------------------------ C10
\* C10: under the scheduling assumptions, once generate has returned a stream
\* the forwarding task always reaches its end (on exhaustion, fatal error or
\* send failure), which drops the sender, and the stream always reaches
\* end-of-stream unless the consumer itself dropped it.
C10_Terminates ==
    \A r \in Requests :
        (rx[r] = "open") ~> (pc[r] = "done" /\ rx[r] \in {"eos", "dropped"})

C10_Witness ==
    \E r1 \in Requests : \E r2 \in Requests \ {r1} :
        /\ rx[r1] = "eos" /\ pc[r1] = "done" /\ done[r1]
        /\ count[r1] < Len(guest[r1])
        /\ Len(received[r1]) = count[r1]
        /\ rx[r2] = "eos" /\ pc[r2] = "done"

\* ------------------------------------------------------------------ C11
\* C11: when the script cannot be loaded or has no `generate` attribute,
\* construction ends by returning an error value: new never panics, never
\* yields an engine, and no request is ever issued.
C11_LoadFailureIsError ==
    script \in {"missing_file", "no_generate"}
    => /\ new_pc \notin {"panicked", "ready"}
       /\ \A r \in Requests : pc[r] \in {"idle", "unused"}

\* ------------------------------------------------------------------ C12
\* C12: once construction has failed on a script path that does not exist,
\* the run_asyncio thread is not alive: it was never started or has ended.
C12_NoThreadLeft ==
    (script = "missing_file" /\ new_pc \in {"error", "panicked"})
    => loop \in {"none", "failed"}

\* ------------------------------------------------------------------ C13
\* C13: when the run_asyncio thread ends before sending the loop, the oneshot
\* is closed, no loop is ever stored, no engine is produced and no request is
\* issued; and the constructor waiting on the oneshot eventually returns an
\* error instead of waiting forever.
C13_State ==
    loop = "failed"
    => /\ handoff = "closed"
       /\ event_loop = 0
       /\ new_pc \in {"await_loop", "error"}
       /\ \A r \in Requests : pc[r] \in {"idle", "unused"}

C13_ClosedHandoff == [](C13_State) /\ ((loop = "failed") ~> (new_pc = "error"))

C13_Witness == loop = "failed" /\ handoff = "closed" /\ new_pc = "error"

\* ------------------------------------------------------------------ C14
\* C14: construction passes the oneshot only after the loop was delivered;
\* there is exactly one run_asyncio thread per engine; every request past
\* its setup holds task locals naming that one loop; the loop exists while
\* any request is in flight, and once it runs it never stops.
Bound(r) == pc[r] \in {"pull", "convert_wait", "convert", "send", "done"}

C14_State ==
    /\ hosts <= 1
    /\ new_pc \in {"load", "loading", "lookup", "looking", "ready", "panicked"}
       => /\ handoff = "taken"
          /\ hosts = 1
          /\ event_loop = hosts
          /\ loop \in {"created", "running"}
    /\ \A r \in Requests :
          /\ pc[r] \notin {"idle", "unused"} => new_pc = "ready"
          /\ Bound(r) => locals[r] = event_loop /\ locals[r] /= 0
          /\ count[r] > 0 => loop = "running"

C14_Step ==
    /\ loop = "running" => loop' = "running"
    /\ event_loop /= 0 => event_loop' = event_loop
    /\ hosts /= 0 => hosts' = hosts

C14_OneLoop == [](C14_State) /\ [][C14_Step]_vars

C14_Witness ==
    /\ new_pc = "ready" /\ loop = "running" /\ event_loop = 1
    /\ \E r1, r2 \in Requests :
          /\ r1 /= r2
          /\ Bound(r1) /\ Bound(r2)
          /\ locals[r1] = 1 /\ locals[r2] = 1
          /\ count[r1] > 0 /\ count[r2] > 0

\* ------------------------------------------------------------------ C15
\* C15: the GIL is held only by spawn_blocking closures; the task that runs
\* new never holds it.
C15_OffloadOnly == gil /= CtorTask

\* ------------------------------------------------------------------ C16
\* C16: at most one party is inside Python::with_gil at any time; a closure
\* takes the GIL only when it is free and gives it back when it returns; a
\* request suspended at the pull or at the send does not hold it; the loop
\* thread runs a guest step only while no closure holds it.
LockHolders ==
    {r \in Requests : pc[r] \in {"setup", "convert"}}
        \cup (IF new_pc \in {"loading", "looking"} THEN {CtorTask} ELSE {})

C16_State ==
    /\ Cardinality(LockHolders) <= 1
    /\ gil = 0 <=> LockHolders = {}
    /\ gil /= 0 => LockHolders = {gil}
    /\ \A r \in Requests : pc[r] \in {"pull", "send"} => gil /= r

C16_Step ==
    \A r \in Requests :
        /\ (gil' = r /\ gil /= r)
              => gil = 0 /\ pc[r] \in {"setup_wait", "convert_wait"}
        /\ (gil = r /\ gil' /= r)
              => gil' = 0 /\ pc'[r] \in {"pull", "rejected", "send"}
        /\ count'[r] /= count[r] => gil = 0 /\ gil' = 0

C16_MutualExclusion == [](C16_State) /\ [][C16_Step]_vars

C16_Witness ==
    \E r1, r2 \in Requests :
        /\ r1 /= r2
        /\ gil = r1 /\ pc[r1] = "convert"
        /\ pc[r2] \in {"setup_wait", "convert_wait"}

\* ------------------------------------------------------------------ C17
\* C17: stop_generating is called only in the step that classifies the item
\* just pulled as a fatal conversion or offload failure, once per such step;
\* never when the sequence is exhausted, when the guest raised, or when the
\* consumer has gone.
C17_Step ==
    \A r \in Requests :
        stop_calls'[r] /= stop_calls[r]
        => /\ stop_calls'[r] = stop_calls[r] + 1
           /\ pc[r] \in {"convert_wait", "convert"}
           /\ pc'[r] = "send"
           /\ guest[r][count[r]].kind /= "raise"
           /\ response'[r] \in {ExpBad(guest[r][count[r]]), ExpOffload}

C17_CancelOnlyOnFatal == [][C17_Step]_vars

C17_Witness ==
    \E r \in Requests :
        /\ stop_calls[r] = 1
        /\ pc[r] = "send"
        /\ response[r] = ExpBad(guest[r][count[r]])
        /\ count[r] = 2
        /\ Len(Stream(r)) = 1

\* ------------------------------------------------------------------ C18
\* C18: every step of a guest sequence runs on the run_asyncio thread while
\* that thread is in run_forever; the forwarding task is at stream.next()
\* for the whole step.
C18_State ==
    \A r \in Requests :
        /\ ran_on[r] \in {0, LoopThread}
        /\ count[r] > 0 => ran_on[r] = LoopThread

C18_Step ==
    \A r \in Requests :
        (count'[r] /= count[r] \/ ran_on'[r] /= ran_on[r])
        => /\ loop = "running"
           /\ pc[r] = "pull"
           /\ ran_on'[r] = LoopThread

C18_StepsOnLoopThread == [](C18_State) /\ [][C18_Step]_vars

C18_Witness ==
    \E r1, r2 \in Requests :
        /\ r1 /= r2
        /\ ran_on[r1] = LoopThread /\ count[r1] >= 2
        /\ ran_on[r2] = LoopThread /\ count[r2] >= 1

\* ------------------------------------------------------------------ C19
\* C19: when the offloaded setup fails, generate returns the error and the
\* request leaves no trace: no stream, no forwarding task, nothing pulled or
\* sent, no stop_generating call; and it stays that way.
C19_State ==
    \A r \in Requests :
        pc[r] = "rejected"
        => /\ rx[r] = "none"
           /\ chan[r] = <<>>
           /\ received[r] = <<>>
           /\ count[r] = 0
           /\ response[r] = NoResponse
           /\ stop_calls[r] = 0
           /\ locals[r] = 0
           /\ gil /= r

C19_Step == \A r \in Requests : pc[r] = "rejected" => pc'[r] = "rejected"

C19_SetupFailure == [](C19_State) /\ [][C19_Step]_vars

C19_Witness ==
    \E r1, r2 \in Requests :
        /\ pc[r1] = "rejected" /\ rx[r1] = "none"
        /\ pc[r2] = "done" /\ Len(received[r2]) >= 1

\* ------------------------------------------------------------------ C20
\* C20: the forwarding task is at stream.next() only with no response
\* pending, every item it pulled so far having been handed to the channel;
\* so the number of items pulled never exceeds the number the consumer
\* received by more than the channel capacity plus one.
C20_State ==
    \A r \in Requests :
        /\ count[r] <= Len(received[r]) + ChannelCapacity + 1
        /\ pc[r] = "pull" => response[r] = NoResponse
        /\ (pc[r] = "pull" /\ rx[r] = "open") => Len(Stream(r)) = count[r]

C20_Step ==
    \A r \in Requests :
        count'[r] /= count[r]
        => /\ count'[r] = count[r] + 1
           /\ pc[r] = "pull"
           /\ response[r] = NoResponse

C20_BoundedLead == [](C20_State) /\ [][C20_Step]_vars

C20_Witness ==
    \E r \in Requests :
        /\ Len(received[r]) >= 1
        /\ count[r] = Len(received[r]) + ChannelCapacity + 1
        /\ response[r] /= NoResponse

\* ------------------------------------------------------------------ C21
\* C21: run starts an input front end (or the wait of Input::None) only
\* when engine_config has been produced; when engine selection fails - the
\* python engine asked for without a model name, or new returning an error -
\* run returns the error, and no front end is started then or later.
InputStarted == front_end /= "none" \/ run_pc \in {"input", "wait_cancel"}

C21_State ==
    /\ InputStarted => engine_config /= "unset"
    /\ (out_opt = "pystr" /\ model_name = "none")
          => run_pc \in {"start", "returned_err"} /\ new_pc = "start"
    /\ (out_opt = "pystr" /\ new_pc = "error")
          => run_pc \in {"make_engine", "returned_err"}
    /\ (run_pc \in {"returned_err", "panicked"} /\ engine_config = "unset")
          => ~InputStarted

C21_Step ==
    /\ (front_end' /= front_end \/ (run_pc' = "wait_cancel" /\ run_pc /= "wait_cancel"))
          => engine_config /= "unset" /\ run_pc = "match_input"
    /\ (run_pc = "make_engine" /\ new_pc = "error" /\ run_pc' /= run_pc)
          => run_pc' = "returned_err"
    /\ run_pc = "returned_err"
          => run_pc' = "returned_err" /\ front_end' = front_end

C21_InputAfterEngine == [](C21_State) /\ [][C21_Step]_vars

C21_Witness ==
    /\ out_opt = "pystr" /\ in_opt = "http"
    /\ new_pc = "error"
    /\ run_pc = "returned_err"
    /\ front_end = "none"

\* ------------------------------------------------------------------ C22
\* C22 as stated: once the token was cancelled while run waited for the
\* endpoints, run does nothing but return Ok, and starts no front end; a
\* front end for a remote output needs the endpoint wait to have succeeded.
C22_CancelWhileWaiting ==
    /\ fired_waiting
          => /\ run_pc \in {"wait_endpoints", "returned_ok"}
             /\ ~InputStarted
    /\ (out_opt = "endpoint" /\ InputStarted) => endpoints = "ready"

\* C22 amended: when the select is taken with the token cancelled and the
\* endpoint wait still pending, run returns Ok and starts no front end; run
\* leaves the select with Ok only on cancellation; with the wait complete it
\* may instead take the wait's result. A front end for a remote output is
\* started only after the select took a successful endpoint wait.
C22_State ==
    /\ (out_opt = "endpoint" /\ InputStarted)
          => endpoints = "ready" /\ engine_config = "Dynamic"
    /\ (out_opt = "endpoint" /\ run_pc = "returned_ok" /\ engine_config = "unset")
          => cancel_token /\ front_end = "none"

C22_Step ==
    (run_pc = "wait_endpoints" /\ run_pc' /= run_pc)
    => /\ (cancel_token /\ endpoints = "pending")
             => /\ run_pc' = "returned_ok"
                /\ front_end' = "none"
                /\ engine_config' = "unset"
       /\ run_pc' = "returned_ok" => cancel_token
       /\ run_pc' = "match_input"
             => endpoints = "ready" /\ engine_config' = "Dynamic"
       /\ run_pc' = "returned_err" => endpoints = "failed"
       /\ run_pc' \in {"returned_ok", "match_input", "returned_err"}

C22_SelectObserves == [](C22_State) /\ [][C22_Step]_vars

C22_Witness ==
    /\ out_opt = "endpoint"
    /\ fired_waiting
    /\ endpoints = "pending"
    /\ run_pc = "returned_ok"
    /\ front_end = "none"
====
